---- MODULE Spec2Model ----
(***************************************************************************)
(* Model of cardgame.py: the Suit and Rank enumerations, the Card class,   *)
(* the Deck class (construction, draw_card, cards_remaining, reset) and    *)
(* the start of the script block that runs when the file is executed.      *)
(*                                                                         *)
(* The file is either imported (the importer then builds a Deck and calls  *)
(* its three methods in any order) or run as a script (__name__ is         *)
(* "__main__" and the block at line 78 runs).                              *)
(***************************************************************************)
EXTENDS Integers, Sequences, FiniteSets, TLC

VARIABLES
  name,    \* the module's __name__
  pc,      \* "loaded", "client" (a Deck is built), "NameError"
  names,   \* names bound in the module namespace after lines 1-75
  cards,   \* Deck.cards, last element is the top
  gen,     \* allocation tag of the Card objects of the current deck
  result,  \* what the last call returned or raised
  last,    \* the last call: [op, pre], pre = draw_card calls before it
  calls,   \* draw_card calls since the deck was built or reset
  hand,    \* the caller's cards: returned by draw_card since then
  kept,    \* a Card the caller retained from before the last reset
  shown    \* repr of the last card returned, as the caller displays it

vars == <<name, pc, names, cards, gen, result, last, calls, hand, kept, shown>>

\* ----- bounds -----------------------------------------------------------
\* random.shuffle draws from one of the streams 0..MaxSeed
MaxSeed == 2
\* draw_card calls followed per deck generation (52 successful + 2 on empty)
MaxCalls == 54

\* ----- Suit, Rank (strings are sequences of Unicode code points) --------
Suit == <<"HEARTS", "DIAMONDS", "CLUBS", "SPADES">>

Rank == <<"ACE", "TWO", "THREE", "FOUR", "FIVE", "SIX", "SEVEN", "EIGHT",
          "NINE", "TEN", "JACK", "QUEEN", "KING">>

SuitValue(s) ==
  CASE s = "HEARTS"   -> <<9829>>
    [] s = "DIAMONDS" -> <<9830>>
    [] s = "CLUBS"    -> <<9827>>
    [] s = "SPADES"   -> <<9824>>

RankValue(r) ==
  CASE r = "ACE"   -> <<65>>
    [] r = "TWO"   -> <<50>>
    [] r = "THREE" -> <<51>>
    [] r = "FOUR"  -> <<52>>
    [] r = "FIVE"  -> <<53>>
    [] r = "SIX"   -> <<54>>
    [] r = "SEVEN" -> <<55>>
    [] r = "EIGHT" -> <<56>>
    [] r = "NINE"  -> <<57>>
    [] r = "TEN"   -> <<49, 48>>
    [] r = "JACK"  -> <<74>>
    [] r = "QUEEN" -> <<81>>
    [] r = "KING"  -> <<75>>

Suits == {Suit[i] : i \in 1..Len(Suit)}
Ranks == {Rank[i] : i \in 1..Len(Rank)}

\* ----- Card -------------------------------------------------------------
\* A Card object: its two fields and obj, the tag of the allocation that
\* created it (objects of different allocations are different objects).
Card(suit, rank, obj) == [suit |-> suit, rank |-> rank, obj |-> obj]

None == [none |-> TRUE]

\* Card.__repr__ with the operands swapped
Repr_swapped(card) == SuitValue(card.suit) \o RankValue(card.rank)

\* Card.__repr__
Repr(card) == RankValue(card.rank) \o SuitValue(card.suit)

\* Card defines no __eq__: == is object identity
CardEq(a, b) == a.suit = b.suit /\ a.rank = b.rank /\ a.obj = b.obj

\* ----- random.shuffle ---------------------------------------------------
\* randbelow(n) of stream seed at loop index i
RandBelow(seed, i, n) == (seed * (i * i + 1) + seed * seed * i) % n

Swap(x, a, b) == [x EXCEPT ![a] = x[b], ![b] = x[a]]

RECURSIVE ShuffleFrom(_, _, _)
\* for i in reversed(range(1, len(x))): j = randbelow(i + 1); swap x[i], x[j]
\* (the list and the index are bound once per iteration)
ShuffleFrom(x, i, seed) ==
  CHOOSE r \in { IF iv < 1 THEN xv
                 ELSE ShuffleFrom(Swap(xv, iv + 1, RandBelow(sv, iv, iv + 1) + 1),
                                  iv - 1, sv) :
                 xv \in {x}, iv \in {i}, sv \in {seed} } : TRUE

Shuffle(x, seed) == ShuffleFrom(x, Len(x) - 1, seed)

\* ----- Deck -------------------------------------------------------------
\* _initialize_deck with the last rank left out of the inner loop
InitializeDeck_shortrank(cs, obj, seed) ==
  Shuffle(cs \o [k \in 1..(Len(Suit) * (Len(Rank) - 1)) |->
                   Card(Suit[((k - 1) \div (Len(Rank) - 1)) + 1],
                        Rank[((k - 1) % (Len(Rank) - 1)) + 1], obj)], seed)

\* _initialize_deck: append a Card per suit, per rank, then shuffle
InitializeDeck(cs, obj, seed) ==
  Shuffle(cs \o [k \in 1..(Len(Suit) * Len(Rank)) |->
                   Card(Suit[((k - 1) \div Len(Rank)) + 1],
                        Rank[((k - 1) % Len(Rank)) + 1], obj)], seed)

\* Deck.__init__
NewDeckCards(obj, seed) == InitializeDeck(<<>>, obj, seed)

\* draw_card without the emptiness test: list.pop() raises on an empty list
draw_card_unguarded(cs) ==
  IF cs # <<>>
  THEN [cards |-> SubSeq(cs, 1, Len(cs) - 1), ret |-> cs[Len(cs)]]
  ELSE [cards |-> cs, ret |-> [raised |-> "IndexError"]]

\* draw_card popping the first element instead of the last
draw_card_front(cs) ==
  IF cs # <<>>
  THEN [cards |-> SubSeq(cs, 2, Len(cs)), ret |-> cs[1]]
  ELSE [cards |-> cs, ret |-> None]

\* draw_card returning the top card without removing it
draw_card_peek(cs) ==
  IF cs # <<>>
  THEN [cards |-> cs, ret |-> cs[Len(cs)]]
  ELSE [cards |-> cs, ret |-> None]

\* draw_card: the new list and the returned value
draw_card(cs) ==
  IF cs # <<>>
  THEN [cards |-> SubSeq(cs, 1, Len(cs) - 1), ret |-> cs[Len(cs)]]
  ELSE [cards |-> cs, ret |-> None]

\* cards_remaining off by one
cards_remaining_offbyone(cs) == Len(cs) + 1

\* cards_remaining
cards_remaining(cs) == Len(cs)

\* reset that clears the list and does not refill it
reset_noinit(cs, obj, seed) == <<>>

\* reset: self.cards = [] then _initialize_deck
reset(cs, obj, seed) == InitializeDeck(<<>>, obj, seed)

\* ----- helpers for the state --------------------------------------------
IsCard(v) == DOMAIN v = {"suit", "rank", "obj"}

Key(card) == <<card.suit, card.rank>>

AllKeys == Suits \X Ranks

DeckSize == Len(Suit) * Len(Rank)

KeysOf(cs) == {Key(cs[i]) : i \in 1..Len(cs)}

Elems(cs) == {cs[i] : i \in 1..Len(cs)}

\* an allocation tag no object the caller still holds carries
FreshObj(held) ==
  IF held = None THEN 0 ELSE 1 - held.obj

\* ----- initial state: the module body (lines 1-75) has run --------------
ModuleNames == {"random", "os", "Enum", "Suit", "Rank", "Card", "Deck"}

Init ==
  /\ name \in {"__main__", "cardgame"}
  /\ pc = "loaded"
  /\ names = ModuleNames
  /\ cards = <<>>
  /\ gen = 0
  /\ result = None
  /\ last = [op |-> "load", pre |-> 0]
  /\ calls = 0
  /\ hand = <<>>
  /\ kept = None
  /\ shown = <<>>

\* ----- the script block -------------------------------------------------
\* if __name__ == "__main__": pygame.init()  -- the lookup of pygame
LookupPygame(ns) == IF "pygame" \in ns THEN "main" ELSE "NameError"

MainBlock ==
  /\ pc = "loaded"
  /\ name = "__main__"
  /\ pc' = LookupPygame(names)
  /\ UNCHANGED <<name, names, cards, gen, result, last, calls, hand, kept, shown>>

\* ----- an importer using Deck -------------------------------------------
NewDeck ==
  /\ pc = "loaded"
  /\ name # "__main__"
  /\ \E seed \in 0..MaxSeed :
       cards' = NewDeckCards(0, seed)
  /\ pc' = "client"
  /\ gen' = 0
  /\ last' = [op |-> "init", pre |-> 0]
  /\ result' = None
  /\ calls' = 0
  /\ hand' = <<>>
  /\ UNCHANGED <<name, names, kept, shown>>

DrawCard ==
  /\ pc = "client"
  /\ calls < MaxCalls
  /\ LET r == draw_card(cards) IN
       /\ cards' = r.cards
       /\ result' = r.ret
       /\ hand' = IF IsCard(r.ret) THEN Append(hand, r.ret) ELSE hand
       /\ shown' = IF IsCard(r.ret) THEN Repr(r.ret) ELSE shown
  /\ calls' = calls + 1
  /\ last' = [op |-> "draw_card", pre |-> calls]
  /\ UNCHANGED <<name, pc, names, gen, kept>>

CardsRemaining ==
  /\ pc = "client"
  /\ result' = [int |-> cards_remaining(cards)]
  /\ last' = [op |-> "cards_remaining", pre |-> calls]
  /\ UNCHANGED <<name, pc, names, cards, gen, calls, hand, kept, shown>>

Reset ==
  /\ pc = "client"
  /\ \E keep \in {kept} \cup (IF hand = <<>> THEN {} ELSE {hand[1]}) :
       /\ kept' = keep
       /\ gen' = FreshObj(keep)
       /\ \E seed \in 0..MaxSeed :
            cards' = reset(cards, FreshObj(keep), seed)
  /\ result' = None
  /\ last' = [op |-> "reset", pre |-> calls]
  /\ calls' = 0
  /\ hand' = <<>>
  /\ UNCHANGED <<name, pc, names, shown>>

Next == MainBlock \/ NewDeck \/ DrawCard \/ CardsRemaining \/ Reset

Spec == Init /\ [][Next]_vars

TypeOK ==
  /\ pc \in {"loaded", "client", "NameError", "main"}
  /\ calls \in 0..MaxCalls
  /\ Len(cards) \in 0..DeckSize

\* ----- properties -------------------------------------------------------
\* the cards the caller or the deck currently holds
Live == Elems(cards) \cup Elems(hand) \cup (IF kept = None THEN {} ELSE {kept})

IsFullDeck(cs) ==
  /\ Len(cs) = 52
  /\ KeysOf(cs) = AllKeys
  /\ Cardinality(AllKeys) = 52
  /\ \A i, j \in 1..Len(cs) : Key(cs[i]) = Key(cs[j]) => i = j

\* C1: right after Deck() and right after every reset(), whatever came
\* before, the deck holds exactly 52 cards, one per (suit, rank) pair of the
\* 4 suits and 13 ranks, none duplicated and none missing.
C1_FreshDeckIsFull ==
  (pc = "client" /\ last.op \in {"init", "reset"}) => IsFullDeck(cards)

C1_Witness ==
  /\ last.op = "reset"
  /\ last.pre = 3
  /\ kept # None
  /\ IsFullDeck(cards)

\* C2: 52 draws from a fresh deck (built or just reset, no reset in between)
\* return 52 cards, pairwise distinct by (suit, rank) and covering all 52
\* combinations, and the 53rd draw returns None.
C2_FiftyTwoDraws ==
  /\ (pc = "client" /\ calls = 52) =>
        /\ Len(hand) = 52
        /\ \A i \in 1..52 : IsCard(hand[i])
        /\ \A i, j \in 1..52 : Key(hand[i]) = Key(hand[j]) => i = j
        /\ KeysOf(hand) = AllKeys
  /\ (pc = "client" /\ calls = 53 /\ last.op = "draw_card") =>
        /\ result = None
        /\ Len(hand) = 52

C2_Witness ==
  /\ calls = 53
  /\ last.op = "draw_card"
  /\ result = None
  /\ KeysOf(hand) = AllKeys
  /\ gen = 1

\* C3: cards_remaining() is the number of cards the deck holds, which is 52
\* minus the successful draws since construction or the last reset; after N
\* draws (0 <= N <= 52) from a fresh deck it is 52 - N; it is within 0..52.
C3_RemainingCount ==
  pc = "client" =>
    /\ cards_remaining(cards) = 52 - Len(hand)
    /\ cards_remaining(cards) \in 0..52
    /\ calls <= 52 => cards_remaining(cards) = 52 - calls
    /\ last.op = "cards_remaining" => result = [int |-> 52 - Len(hand)]

C3_Witness ==
  /\ last.op = "cards_remaining"
  /\ calls = 3
  /\ result = [int |-> 49]

\* C4: draw_card() on an empty deck returns None without raising and leaves
\* the deck empty (cards_remaining() = 0); this holds for every further draw
\* until reset() is called.
C4_DrawOnEmpty ==
  [][(pc = "client" /\ cards = <<>> /\ last'.op = "draw_card") =>
       /\ result' = None
       /\ cards' = <<>>
       /\ cards_remaining(cards') = 0
       /\ hand' = hand]_vars

C4_Witness ==
  /\ last.op = "draw_card"
  /\ calls = 54
  /\ result = None
  /\ cards = <<>>
  /\ Len(hand) = 52

\* C5: reset() is enabled in every state of a deck and never fails: after
\* no draw, some draws, all 52 or failed draws on the empty deck it leaves
\* cards_remaining() = 52 with the full set of 52 combinations.
C5_ResetAlwaysRestores ==
  /\ pc = "client" => ENABLED Reset
  /\ (pc = "client" /\ last.op = "reset") =>
        /\ result = None
        /\ cards_remaining(cards) = 52
        /\ KeysOf(cards) = AllKeys
        /\ hand = <<>>

C5_Witness ==
  /\ last.op = "reset"
  /\ last.pre = 54
  /\ cards_remaining(cards) = 52
  /\ KeysOf(cards) = AllKeys

\* C6: draw_card() on a non-empty deck removes exactly one card, the last of
\* the deck's order, and returns it: the card is no longer in the deck and
\* the other cards keep their relative order.
C6_DrawTakesTop ==
  [][(pc = "client" /\ cards # <<>> /\ last'.op = "draw_card") =>
       /\ IsCard(result')
       /\ cards = Append(cards', result')
       /\ ~ \E i \in 1..Len(cards') : CardEq(cards'[i], result')]_vars

C6_Witness ==
  /\ last.op = "draw_card"
  /\ IsCard(result)
  /\ Len(cards) = 40
  /\ result \notin Elems(cards)

\* C7: every step of draw_card(), cards_remaining() and reset() calls either
\* shrinks the deck by exactly 1 (successful draw), leaves its size alone
\* (draw on empty, cards_remaining) or makes it 52 (reset); the size never
\* exceeds 52.
C7_SizeSteps ==
  /\ [](Len(cards) <= 52)
  /\ [][pc = "client" =>
          CASE last'.op = "draw_card" ->
                 IF IsCard(result') THEN Len(cards') = Len(cards) - 1
                                    ELSE Len(cards') = Len(cards)
            [] last'.op = "cards_remaining" -> Len(cards') = Len(cards)
            [] last'.op = "reset" -> Len(cards') = 52
            [] OTHER -> FALSE]_vars

C7_Witness ==
  /\ last.op = "reset"
  /\ last.pre \in 1..51
  /\ Len(cards) = 52

\* C8: two Card instances with equal suit and equal rank compare as equal,
\* including a card drawn before a reset and the card with the same suit and
\* rank that the reset created.
C8_ValueEquality ==
  \A a \in Live : \A b \in Elems(cards) :
    (a.suit = b.suit /\ a.rank = b.rank) => CardEq(a, b)

\* C9: the display string of every Card is its rank's label immediately
\* followed by its suit's glyph (Card(SPADES, ACE) is "A" then the spade,
\* Card(HEARTS, TEN) is "10" then the heart), and cards of distinct
\* (suit, rank) have distinct display strings.
C9_DisplayString ==
  /\ Repr(Card("SPADES", "ACE", 0)) = <<65, 9824>>
  /\ Repr(Card("HEARTS", "TEN", 0)) = <<49, 48, 9829>>
  /\ (last.op = "draw_card" /\ IsCard(result)) =>
        /\ Len(shown) = Len(RankValue(result.rank)) + 1
        /\ SubSeq(shown, 1, Len(shown) - 1) = RankValue(result.rank)
        /\ <<shown[Len(shown)]>> = SuitValue(result.suit)
        /\ \A c \in Elems(cards) : Repr(c) # shown
  /\ last.op = "init" =>
        \A i, j \in 1..Len(cards) : Repr(cards[i]) = Repr(cards[j]) => i = j

C9_Witness ==
  /\ last.op = "draw_card"
  /\ IsCard(result)
  /\ result.suit = "HEARTS"
  /\ result.rank = "TEN"
  /\ shown = <<49, 48, 9829>>

\* C10: when the file runs as a script, after any sequence of Draw Card and
\* Reshuffle clicks the cards shown to the player and the cards in the deck
\* are disjoint and together are the 52 combinations, so their counts add up
\* to 52.
C10_ScriptGameState ==
  (name = "__main__" /\ pc # "loaded") =>
    /\ pc = "main"
    /\ KeysOf(hand) \cap KeysOf(cards) = {}
    /\ KeysOf(hand) \cup KeysOf(cards) = AllKeys
    /\ Len(hand) + cards_remaining(cards) = 52
====
